---- MODULE Spec2Model ----
(***************************************************************************)
(* Model of the nRF Secure DFU client (dfu/dfu.go): the session object,    *)
(* the buttonless transition, the reconnect loop and the object transfer,  *)
(* together with the BLE device and transport they talk to.                *)
(***************************************************************************)
EXTENDS Integers, Sequences, FiniteSets, TLC

(***************************************************************************)
(* Bytes, little-endian words and CRC-32/IEEE.                             *)
(* A 32-bit word is kept as its four little-endian bytes, exactly as it    *)
(* travels on the wire, so that no value exceeds the byte range.           *)
(***************************************************************************)
Byte == 0..255

RECURSIVE XorN(_, _, _)
\* bitwise exclusive-or of the low n bits of a and b
XorN(a, b, n) ==
    IF n = 0 THEN 0
    ELSE (((a % 2) + (b % 2)) % 2) + 2 * XorN(a \div 2, b \div 2, n - 1)

Xor8(a, b) == XorN(a, b, 8)

\* binary.LittleEndian.PutUint32
PutUint32(n) ==
    << n % 256, (n \div 256) % 256, (n \div 65536) % 256, (n \div 16777216) % 256 >>

\* binary.LittleEndian.PutUint16
PutUint16(n) == << n % 256, (n \div 256) % 256 >>

\* the value of a little-endian word whose top byte is below 128
Uint32(w) == w[1] + 256 * w[2] + 65536 * w[3] + 16777216 * w[4]

Xor32(v, w) ==
    << Xor8(v[1], w[1]), Xor8(v[2], w[2]), Xor8(v[3], w[3]), Xor8(v[4], w[4]) >>

\* logical shift right by one bit of a little-endian word
Shr1(w) ==
    << (w[1] \div 2) + 128 * (w[2] % 2), (w[2] \div 2) + 128 * (w[3] % 2),
       (w[3] \div 2) + 128 * (w[4] % 2), w[4] \div 2 >>

\* the reflected IEEE polynomial 0xEDB88320
IEEEPoly == << 32, 131, 184, 237 >>

\* one step of the bitwise construction of the table
CrcBit(w) == IF (w[1] % 2) = 1 THEN Xor32(Shr1(w), IEEEPoly) ELSE Shr1(w)

RECURSIVE CrcBits(_, _)
CrcBits(w, n) ==
    IF n = 0 THEN w
    ELSE CHOOSE r \in { CrcBits(v, n - 1) : v \in {CrcBit(w)} } : TRUE

\* the table entries of the bytes lo..hi, in order
RECURSIVE TableEntries(_, _)
TableEntries(lo, hi) ==
    IF lo = hi THEN << CrcBits(<< lo, 0, 0, 0 >>, 8) >>
    ELSE TableEntries(lo, (lo + hi) \div 2)
         \o TableEntries(((lo + hi) \div 2) + 1, hi)

\* crc32.IEEETable: the entry of byte b is at index b + 1
IEEETable == TableEntries(0, 255)

\* crc32.Update, one byte
CrcByte(crc, b) ==
    Xor32(IEEETable[Xor8(crc[1], b) + 1], << crc[2], crc[3], crc[4], 0 >>)

\* crc32.Update over the bytes lo..hi of data, in order; the range is halved
\* to keep the evaluation shallow
RECURSIVE CrcUpdate(_, _, _, _)
CrcUpdate(crc, data, lo, hi) ==
    IF lo > hi THEN crc
    ELSE IF lo = hi THEN CrcByte(crc, data[lo])
    ELSE CHOOSE r \in { CrcUpdate(v, data, ((lo + hi) \div 2) + 1, hi) :
                          v \in {CrcUpdate(crc, data, lo, (lo + hi) \div 2)} } : TRUE

\* crc32.ChecksumIEEE
ChecksumIEEE(data) ==
    Xor32(CrcUpdate(<< 255, 255, 255, 255 >>, data, 1, Len(data)),
          << 255, 255, 255, 255 >>)


(***************************************************************************)
(* Bounds of the model.                                                    *)
(***************************************************************************)
\* longest payload of an archive member
MaxLen == 45
\* objects one transfer may create before the model stops following it
MaxObjects == 3

(***************************************************************************)
(* Program constants.                                                      *)
(***************************************************************************)
DFU_OP_OBJECT_CREATE == 1
DFU_OP_RECEIPT_NOTIF_SET == 2
DFU_OP_CRC_GET == 3
DFU_OP_OBJECT_EXECUTE == 4
DFU_OP_OBJECT_SELECT == 6
DFU_OP_RESPONSE == 96
DFU_RESULT_SUCCESS == 1
DFU_RESULT_DFUOPERATION_FAILED == 10
\* the response code of the buttonless service, sendBoot
BootResponseCode == 32
\* sendData: chunkSize := 20
chunkSize == 20
\* Update: tries := 5
ReconnectTries == 5
\* the buttonless requests
BootOpEnter == 1
BootOpSetName == 2
\* object types of the two payloads
InitType == 1
ImageType == 2

(***************************************************************************)
(* Inputs: archives, device names, device profiles.                        *)
(***************************************************************************)
\* a payload of n bytes, all distinct modulo 256
Payload(n, seed) == [k \in 1..n |-> (seed + 7 * k) % 256]

\* an archive: can it be opened, and its members in order, (suffix, data)
Archive(d, b) ==
    [open |-> TRUE, members |-> << [suffix |-> ".dat", data |-> d],
                                   [suffix |-> ".bin", data |-> b] >>]
NoArchive == [open |-> FALSE, members |-> << >>]

\* an archive with a member that is neither .dat nor .bin and with two .dat
\* members
ArchiveWithExtras(x, d0, d, b) ==
    [open |-> TRUE, members |-> << [suffix |-> ".json", data |-> x],
                                   [suffix |-> ".dat", data |-> d0],
                                   [suffix |-> ".dat", data |-> d],
                                   [suffix |-> ".bin", data |-> b] >>]

\* an archive with one member
ArchiveOnly(suffix, d) ==
    [open |-> TRUE, members |-> << [suffix |-> suffix, data |-> d] >>]

Archives ==
    { ArchiveOnly(".bin", Payload(chunkSize + 5, 11)),
      ArchiveOnly(".dat", Payload(5, 3)),
      ArchiveWithExtras(Payload(3, 9), Payload(2, 1),
                        Payload(0, 0), Payload(chunkSize + 5, 11)),
      Archive(Payload(5, 3), Payload(MaxLen, 40)),
      NoArchive }

\* "dev", and "Dfu" followed by ten lower-case letters
UserName == << 100, 101, 118 >>
UserAddress == "C0:FF:EE:00:00:01"
GenNames == { << 68, 102, 117 >> \o [k \in 1..10 |-> 97],
              << 68, 102, 117 >> \o [k \in 1..10 |-> 97 + k] }

\* what a connect attempt can meet: no connection, a device without the DFU
\* service, or a DFU service with some of the four characteristics
Profiles ==
    { {}, {"control", "packet"}, {"bonded"}, {"unbonded"},
      {"bonded", "unbonded"}, {"control", "unbonded"} }
ConnectOutcomes ==
    { [connected |-> FALSE, service |-> FALSE, chars |-> {}],
      [connected |-> TRUE, service |-> FALSE, chars |-> {}] }
    \cup { [connected |-> TRUE, service |-> TRUE, chars |-> c] : c \in Profiles }

\* max_size values a device reports on SELECT
MaxSizes == { 0, chunkSize, chunkSize + 5 }

Nil == "nil"
\* a *zip.File: nil, or the member's data
NilFile == << >>
File(d) == << d >>
\* a member of an archive that has been closed: a *zip.File that cannot be
\* opened any more
Close(file) == IF file = NilFile THEN NilFile ELSE << file[1], "closed" >>

VARIABLES
    \* the session, type Dfu
    address, name, peripheral, control, packet, boot, addressChange,
    initDataFile, firmwareFile, progress, maxProgressValue, progressValue,
    \* the engine: where it is, and the locals of the running functions
    pc, api, archive, err, result, tries, rebooted, defers, ebDefers,
    xfer, request, received,
    \* the device and the transport
    linkUp, subs, air, pending,
    \* for each frame of pending, the number of the request it answers
    origins,
    \* history
    calls, leaked, wire, consumed, completed, lastRet, lastVerify, lastSelect,
    \* the calls of the progress callback, in order: (current, total)
    reports,
    \* the buttonless characteristic when enterBootloader started and, for the
    \* bonded one, the session's address and name at that time
    entered,
    \* the first connect of the call: whether it returned nil with both
    \* control and packet found, and whether another connect followed it
    firstConnect

NoRet == [fn |-> "none"]

sessVars == << address, name, peripheral, control, packet, boot, addressChange,
               initDataFile, firmwareFile,
               progress, maxProgressValue, progressValue >>
engVars == << pc, api, archive, err, result, tries, rebooted, defers, ebDefers,
              xfer, request, received >>
envVars == << linkUp, subs, air, pending, origins >>
histVars == << calls, leaked, wire, consumed, completed,
              lastRet, lastVerify, lastSelect, reports, entered,
              firstConnect >>
\* what the last engine step returned is forgotten at the next engine step
Forget == lastRet' = NoRet /\ lastVerify' = NoRet /\ lastSelect' = NoRet
vars == << sessVars, engVars, envVars, histVars >>

NotEntered == [kind |-> Nil, address |-> "", name |-> << >>]

NoXfer == [type |-> 0, data |-> << >>, max |-> 0, i |-> 0, end |-> 0, j |-> 0,
           nobj |-> 0]

\* NewDfu
Init ==
    /\ address = "" /\ name = << >>
    /\ peripheral = Nil /\ control = Nil /\ packet = Nil
    /\ boot = [h |-> Nil, kind |-> Nil]
    /\ addressChange = FALSE
    /\ initDataFile = NilFile /\ firmwareFile = NilFile
    /\ progress = Nil /\ maxProgressValue = 0 /\ progressValue = 0
    /\ reports = << >> /\ entered = NotEntered /\ firstConnect = NoRet
    /\ pc = "idle" /\ api = "none" /\ archive = NoArchive
    /\ err = Nil /\ result = "none"
    /\ tries = 0 /\ rebooted = FALSE /\ defers = << >> /\ ebDefers = << >>
    /\ xfer = NoXfer /\ request = << >> /\ received = << >>
    /\ linkUp = FALSE /\ subs = {} /\ air = << >> /\ pending = << >> /\ origins = << >>
    /\ calls = 0 /\ leaked = FALSE /\ wire = << >>
    /\ consumed = 0 /\ completed = {}
    /\ lastRet = NoRet /\ lastVerify = NoRet /\ lastSelect = NoRet


(***************************************************************************)
(* Pure parts of the engine.                                               *)
(***************************************************************************)
Min(a, b) == IF a < b THEN a ELSE b

Panic == "panic"

\* errors.Wrap and errors.Wrapf: wrapping a nil error yields nil
Wrap(e, msg) == IF e = Nil THEN Nil ELSE msg

\* sendControl after the write succeeded (err is nil) and a frame of at least
\* three bytes was received: the response body and the error it returns
SendControlCheck(opcode, response) ==
    LET e == Nil IN
    IF response[1] # DFU_OP_RESPONSE
    THEN [resp |-> << >>, err |-> Wrap(e, "Received incorrect response code")]
    ELSE IF response[2] # opcode
    THEN [resp |-> << >>, err |-> Wrap(e, "Received response for incorrect operation")]
    ELSE IF response[3] # DFU_RESULT_SUCCESS
    THEN [resp |-> << >>, err |-> Wrap(e, "DFU control operation failed")]
    ELSE [resp |-> SubSeq(response, 4, Len(response)), err |-> e]

\* sendBoot after the write succeeded and a frame of at least three bytes
\* was received: the error it returns
SendBootCheck(req, response) ==
    LET e == Nil IN
    IF response[1] # BootResponseCode
    THEN Wrap(e, "Received incorrect response code")
    ELSE IF response[2] # req[1]
    THEN Wrap(e, "Received response for incorrect operation")
    ELSE IF response[3] # DFU_RESULT_SUCCESS
    THEN Wrap(e, "DFU control operation failed")
    ELSE Nil

ZeroWord == << 0, 0, 0, 0 >>

\* sendSelect, given what sendControl returned: binary.Read fills the three
\* words only from twelve bytes or more
SendSelect(r) ==
    IF r.err # Nil
    THEN [MaxSize |-> 0, Offset |-> 0, Crc32 |-> ZeroWord,
          err |-> Wrap(r.err, "failed to send select command")]
    ELSE IF Len(r.resp) < 12
    THEN [MaxSize |-> 0, Offset |-> 0, Crc32 |-> ZeroWord,
          err |-> "failed to unpack select response data"]
    ELSE [MaxSize |-> Uint32(SubSeq(r.resp, 1, 4)),
          Offset |-> Uint32(SubSeq(r.resp, 5, 8)),
          Crc32 |-> SubSeq(r.resp, 9, 12), err |-> Nil]

\* sendCrcGet, given what sendControl returned
SendCrcGet(r) ==
    IF r.err # Nil
    THEN [Offset |-> 0, Crc32 |-> ZeroWord,
          err |-> Wrap(r.err, "failed to send crc get command")]
    ELSE IF Len(r.resp) < 8
    THEN [Offset |-> 0, Crc32 |-> ZeroWord,
          err |-> "failed to unpack crc get response data"]
    ELSE [Offset |-> Uint32(SubSeq(r.resp, 1, 4)),
          Crc32 |-> SubSeq(r.resp, 5, 8), err |-> Nil]

\* a verifyCrc that compares with the checksum of the whole payload
VerifyCrcBranchWholePayload(data, end, cr) ==
    IF cr.err # Nil THEN "failed"
    ELSE IF cr.Offset # end THEN "size mismatch"
    ELSE IF cr.Crc32 # ChecksumIEEE(data) THEN "crc mismatch"
    ELSE "match"

\* verifyCrc, given what sendCrcGet returned: the return statement it reaches
VerifyCrcBranch(data, end, cr) ==
    IF cr.err # Nil THEN "failed"
    ELSE IF cr.Offset # end THEN "size mismatch"
    ELSE IF cr.Crc32 # ChecksumIEEE(SubSeq(data, 1, end)) THEN "crc mismatch"
    ELSE "match"

\* verifyCrc, given what sendCrcGet returned: the error it returns
VerifyCrc(data, end, cr) ==
    IF cr.err # Nil THEN Wrap(cr.err, "failed to compute checksum")
    ELSE IF cr.Offset # end THEN Wrap(cr.err, "Size mismatch")
    ELSE IF cr.Crc32 # ChecksumIEEE(SubSeq(data, 1, end))
    THEN Wrap(cr.err, "CRC mismatch")
    ELSE cr.err

\* a resume check that compares the payload size with the wrong word of the
\* SELECT response
AlreadyUploadedByMaxSize(data, sr) ==
    sr.MaxSize = Len(data) /\ sr.Crc32 = ChecksumIEEE(data)

\* transfer: the resume check on the SELECT response
AlreadyUploaded(data, sr) ==
    sr.Offset = Len(data) /\ sr.Crc32 = ChecksumIEEE(data)

\* transfer: the end of the chunk starting at i
\* a transfer that puts the rest of the payload into one chunk
ChunkEndOfPayload(i, maxChunkSize, data) == Len(data)

ChunkEnd(i, maxChunkSize, data) ==
    IF i + maxChunkSize > Len(data) THEN Len(data) ELSE i + maxChunkSize

\* sendCreateObject: the request, opcode included
CreateRequest(controlType, length) ==
    << DFU_OP_OBJECT_CREATE, controlType >> \o PutUint32(length)

\* a sendData that slices every fragment from the start of the chunk
FragmentFromStart(data, j) ==
    SubSeq(data, 1, IF chunkSize > Len(data) - j THEN Len(data) - j ELSE chunkSize)

\* a sendData that fills the last fragment up to chunkSize with zero bytes
FragmentPadded(data, j) ==
    IF j + chunkSize > Len(data)
    THEN SubSeq(data, j + 1, Len(data)) \o [k \in 1..(j + chunkSize - Len(data)) |-> 0]
    ELSE SubSeq(data, j + 1, j + chunkSize)

\* sendData: the fragment written at index j of data
Fragment(data, j) ==
    SubSeq(data, j + 1, IF j + chunkSize > Len(data) THEN Len(data) ELSE j + chunkSize)

\* a sendBootloaderAdvName that leaves out the length of the name
AdvNameRequestNoLength(n) == << BootOpSetName >> \o n

\* sendBootloaderAdvName: the request
AdvNameRequest(n) == << BootOpSetName, Len(n) % 256 >> \o n

\* readFirmwareArchive: the member a suffix selects, the last one wins
RECURSIVE SelectMember(_, _, _)
SelectMember(members, suffix, current) ==
    IF members = << >> THEN current
    ELSE SelectMember(Tail(members), suffix,
                      IF Head(members).suffix = suffix
                      THEN File(Head(members).data) ELSE current)

\* the sizes of the .dat and .bin members of an archive
RECURSIVE MemberSizes(_)
MemberSizes(members) ==
    IF members = << >> THEN 0
    ELSE (IF Head(members).suffix \in {".dat", ".bin"}
          THEN Len(Head(members).data) ELSE 0) + MemberSizes(Tail(members))

\* a readFirmwareArchive that computes the total from the archive alone
AddSizesOfArchive(members, max) == MemberSizes(members)

\* readFirmwareArchive: maxProgressValue after the members, each .dat and
\* each .bin member adding its size
RECURSIVE AddSizes(_, _)
AddSizes(members, max) ==
    IF members = << >> THEN max
    ELSE AddSizes(Tail(members),
                  IF Head(members).suffix \in {".dat", ".bin"}
                  THEN max + Len(Head(members).data) ELSE max)

\* an updateProgress that counts a whole fragment for every write
UpdateProgressByChunk(value, increment) == value + chunkSize

\* updateProgress: the new progressValue
UpdateProgress(value, increment) == value + increment

\* a handle of an earlier connection is stale once a new connection exists
Stale(h) == IF h = "cur" THEN "old" ELSE h

\* a connect that looks for the unbonded buttonless characteristic first
SelectBootUnbondedFirst(chars) ==
    IF "unbonded" \in chars THEN [h |-> "cur", kind |-> "unbonded"]
    ELSE IF "bonded" \in chars THEN [h |-> "cur", kind |-> "bonded"]
    ELSE [h |-> Nil, kind |-> Nil]

\* connect: the buttonless characteristic chosen among those of the service
SelectBoot(chars) ==
    IF "bonded" \in chars THEN [h |-> "cur", kind |-> "bonded"]
    ELSE IF "unbonded" \in chars THEN [h |-> "cur", kind |-> "unbonded"]
    ELSE [h |-> Nil, kind |-> Nil]

\* connect: the session fields and the error after a connect attempt
ConnectResult(o) ==
    IF ~o.connected
    THEN [peripheral |-> Nil, control |-> control, packet |-> packet,
          boot |-> boot, addressChange |-> addressChange,
          err |-> "failed to connect to device"]
    ELSE IF ~o.service
    THEN [peripheral |-> "cur", control |-> Stale(control),
          packet |-> Stale(packet), boot |-> [boot EXCEPT !.h = Stale(@)],
          addressChange |-> addressChange,
          err |-> Wrap(Nil, "DFU Service not found")]
    ELSE LET c == IF "control" \in o.chars THEN "cur" ELSE Nil
             p == IF "packet" \in o.chars THEN "cur" ELSE Nil
             b == SelectBoot(o.chars)
         IN IF c = Nil \/ p = Nil
            THEN [peripheral |-> "cur", control |-> c, packet |-> p, boot |-> b,
                  addressChange |-> (b.kind # "bonded"),
                  err |-> IF b.h = Nil
                          THEN Wrap(Nil, "No DFU characteristics found") ELSE Nil]
            ELSE [peripheral |-> "cur", control |-> c, packet |-> p,
                  boot |-> [boot EXCEPT !.h = Stale(@)],
                  addressChange |-> addressChange, err |-> Nil]

(***************************************************************************)
(* The device: the frames it may answer with.                              *)
(***************************************************************************)
\* a checksum off by one bit
FlipBit(w) == [w EXCEPT ![1] = Xor8(@, 1)]

OtherOpcode(op) == IF op = DFU_OP_OBJECT_EXECUTE THEN DFU_OP_CRC_GET
                   ELSE DFU_OP_OBJECT_EXECUTE

\* bodies of success responses to a control request, for the payload at hand
ResponseBodies(req, data, end) ==
    IF req[1] = DFU_OP_OBJECT_SELECT
    THEN { PutUint32(m) \o PutUint32(o) \o c :
             m \in MaxSizes, o \in {0, Len(data)},
             c \in {ChecksumIEEE(data), FlipBit(ChecksumIEEE(data))} }
    ELSE IF req[1] = DFU_OP_CRC_GET
    THEN { PutUint32(o) \o c :
             o \in {end, end + 1},
             c \in {ChecksumIEEE(SubSeq(data, 1, end)),
                    FlipBit(ChecksumIEEE(SubSeq(data, 1, end)))} }
    ELSE { << >> }

\* the body the device sends along with a frame that is not a success frame
\* for the request: the one a success would carry
UsualBody(req, data, end) ==
    IF req[1] = DFU_OP_OBJECT_SELECT
    THEN PutUint32(chunkSize) \o PutUint32(Len(data)) \o ChecksumIEEE(data)
    ELSE IF req[1] = DFU_OP_CRC_GET
    THEN PutUint32(end) \o ChecksumIEEE(SubSeq(data, 1, end))
    ELSE << >>

ControlFrames(req, data, end) ==
    { << DFU_OP_RESPONSE, req[1], DFU_RESULT_SUCCESS >> \o b :
        b \in ResponseBodies(req, data, end) }
    \cup { << DFU_OP_RESPONSE, req[1], DFU_RESULT_DFUOPERATION_FAILED >>,
           << BootResponseCode, req[1], DFU_RESULT_SUCCESS >>
               \o UsualBody(req, data, end),
           << DFU_OP_RESPONSE, OtherOpcode(req[1]), DFU_RESULT_SUCCESS >>
               \o UsualBody(req, data, end),
           << >>,
           << DFU_OP_RESPONSE, req[1] >> }

BootFrames(req) ==
    { << BootResponseCode, req[1], DFU_RESULT_SUCCESS >>,
      << BootResponseCode, req[1], DFU_RESULT_DFUOPERATION_FAILED >>,
      << DFU_OP_RESPONSE, req[1], DFU_RESULT_SUCCESS >>,
      << BootResponseCode, 3 - req[1], DFU_RESULT_SUCCESS >>,
      << BootResponseCode, req[1] >> }

\* the subscription modes on which a device delivers a buttonless response
DeliveryModes == { {"bootI"}, {"bootN"}, {"bootI", "bootN"} }

\* the number of requests written to the control or buttonless characteristic
RECURSIVE Requests(_)
Requests(w) ==
    IF w = << >> THEN 0
    ELSE (IF Head(w).ch \in {"control", "boot"} THEN 1 ELSE 0) + Requests(Tail(w))

\* the frames handed to the transport in reply to the request being written,
\* one per subscribed mode, in mode order
Emit(frame, modes) ==
    LET req == Requests(wire) + 1 IN
    (IF "bootI" \in modes /\ "bootI" \in subs
     THEN << [sub |-> "bootI", frame |-> frame, req |-> req] >> ELSE << >>)
    \o (IF "bootN" \in modes /\ "bootN" \in subs
        THEN << [sub |-> "bootN", frame |-> frame, req |-> req] >> ELSE << >>)
    \o (IF "controlN" \in modes /\ "controlN" \in subs
        THEN << [sub |-> "controlN", frame |-> frame, req |-> req] >>
        ELSE << >>)

\* the frames still on their way after a subscription is cancelled
RECURSIVE Without(_, _)
Without(q, sub) ==
    IF q = << >> THEN << >>
    ELSE IF Head(q).sub = sub THEN Without(Tail(q), sub)
    ELSE << Head(q) >> \o Without(Tail(q), sub)


(***************************************************************************)
(* The engine's control flow between two operations on the transport: each *)
(* operator gives the engine's next position and locals.                   *)
(***************************************************************************)
\* done: the transfers that returned nil on the way, and whether by the
\* resume check
At(p, e, x, req) ==
    [pc |-> p, err |-> e, xfer |-> x, request |-> req, done |-> {}]

Unwinding(e) == At("unwind", e, NoXfer, << >>)

\* transfer up to the write of SELECT; opening a nil *zip.File panics, and
\* opening a member of a closed archive fails, which fails the Update
StartTransfer(objectType, file) ==
    IF file = NilFile THEN Unwinding(Panic)
    ELSE IF file = Close(file)
    THEN Unwinding(IF objectType = InitType THEN "failed to transfer init data"
                   ELSE "failed to transfer firmware data")
    ELSE At("sendControl", Nil,
            [NoXfer EXCEPT !.type = objectType, !.data = file[1]],
            << DFU_OP_OBJECT_SELECT, objectType >>)

\* an Update that goes on with the image whatever the init transfer returned
TransferReturnUnchecked(x, e) ==
    IF x.type = InitType THEN StartTransfer(ImageType, firmwareFile)
    ELSE Unwinding(e)

\* transfer returns e to Update, which goes on with the image or returns
TransferReturn(x, e) ==
    IF e # Nil
    THEN Unwinding(IF x.type = InitType THEN "failed to transfer init data"
                   ELSE "failed to transfer firmware data")
    ELSE [(IF x.type = InitType THEN StartTransfer(ImageType, firmwareFile)
           ELSE Unwinding(Nil))
          EXCEPT !.done = {[type |-> x.type, skipped |-> FALSE]}]

\* transfer: the loop body up to the write of CREATE
StartChunk(x) ==
    LET end == ChunkEnd(x.i, x.max, x.data) IN
    IF x.nobj >= MaxObjects THEN At("cutoff", Nil, x, << >>)
    ELSE At("sendControl", Nil,
            [x EXCEPT !.end = end, !.j = 0, !.nobj = @ + 1],
            CreateRequest(x.type, end - x.i))

\* a transfer whose loop body runs before the loop test
LoopTestAfterBody(x, e) == StartChunk(x)

\* transfer: the loop test; e is the value of err when the loop is left
LoopTest(x, e) ==
    IF x.i < Len(x.data) THEN StartChunk(x) ELSE TransferReturn(x, e)

\* transfer after sendSelect: its error is not looked at
AfterSelect(x, r) ==
    LET sr == SendSelect(r)
        x1 == [x EXCEPT !.max = sr.MaxSize, !.i = 0]
    IN IF AlreadyUploaded(x.data, sr)
       THEN [TransferReturn(x1, sr.err)
             EXCEPT !.done = {[d EXCEPT !.skipped = TRUE] : d \in @}]
       ELSE LoopTest(x1, sr.err)

\* verifyCrc up to the write of CRC_GET
VerifyStart(x) == At("sendControl", Nil, x, << DFU_OP_CRC_GET >>)

\* transfer after sendCreateObject; sendData of an empty chunk writes nothing
AfterCreate(x, r) ==
    IF Wrap(r.err, "failed to send create object command") # Nil
    THEN TransferReturn(x, "failed to create object")
    ELSE IF x.end = x.i THEN VerifyStart(x)
    ELSE At("sendData", Nil, [x EXCEPT !.j = 0], << >>)

\* a transfer that goes on to the next chunk without EXECUTE
AfterCrcGetNoExecute(x, r) ==
    IF VerifyCrc(x.data, x.end, SendCrcGet(r)) # Nil
    THEN TransferReturn(x, "verification failed")
    ELSE LoopTest([x EXCEPT !.i = @ + x.max], Nil)

\* transfer after verifyCrc
AfterCrcGet(x, r) ==
    IF VerifyCrc(x.data, x.end, SendCrcGet(r)) # Nil
    THEN TransferReturn(x, "verification failed")
    ELSE At("sendControl", Nil, x, << DFU_OP_OBJECT_EXECUTE >>)

\* transfer after sendExecute: the next chunk, or the end of the loop
AfterExecute(x, r) ==
    IF Wrap(r.err, "failed to send execute command") # Nil
    THEN TransferReturn(x, "failed to execute")
    ELSE LoopTest([x EXCEPT !.i = @ + x.max], Nil)

\* the caller of sendControl goes on with what it returned
AfterControl(x, req, r) ==
    IF req[1] = DFU_OP_OBJECT_SELECT THEN AfterSelect(x, r)
    ELSE IF req[1] = DFU_OP_OBJECT_CREATE THEN AfterCreate(x, r)
    ELSE IF req[1] = DFU_OP_CRC_GET THEN AfterCrcGet(x, r)
    ELSE AfterExecute(x, r)

\* sendControl from the received frame on; indexing a short frame panics
ControlReceived(x, req, frame) ==
    IF Len(frame) < 3 THEN Unwinding(Panic)
    ELSE AfterControl(x, req, SendControlCheck(req[1], frame))

\* a sendData that returns after its first fragment
AfterFragmentOnce(x) == VerifyStart([x EXCEPT !.j = x.j + chunkSize])

\* sendData after a fragment was written
AfterFragment(x) ==
    LET j1 == x.j + chunkSize IN
    IF j1 < x.end - x.i THEN At("sendData", Nil, [x EXCEPT !.j = j1], << >>)
    ELSE VerifyStart([x EXCEPT !.j = j1])

\* a sendControl that returns after the write, without the receive
AwaitResponseSkipped(x, req) ==
    AfterControl(x, req, [resp |-> << >>, err |-> Nil])

\* sendControl after the write succeeded: it blocks on responseChannel
AwaitResponse(x, req) == At("recvControl", Nil, x, req)

SetEngine(c) ==
    /\ pc' = c.pc /\ err' = c.err /\ xfer' = c.xfer /\ request' = c.request
    /\ completed' = completed \cup c.done

\* a characteristic handle can be used: it belongs to the live connection
Usable(h) == h = "cur" /\ linkUp

\* the outcomes of an operation on a handle: it fails on a handle that cannot
\* be used, and it fails when the link drops under it
Outcomes(h) == IF Usable(h) THEN {TRUE, FALSE} ELSE {FALSE}

\* the link of the live connection is gone: so are its subscriptions and the
\* frames that were on their way
LinkDown == linkUp' = FALSE /\ subs' = {} /\ air' = << >>

(***************************************************************************)
(* Operations of the session.                                              *)
(***************************************************************************)
SetDeviceAddress(a) ==
    /\ pc = "idle" /\ calls = 0
    /\ address' = a /\ name' = << >>
    /\ UNCHANGED << peripheral, control, packet, boot, addressChange,
                    initDataFile, firmwareFile >>
    /\ UNCHANGED << engVars, envVars, histVars >>
    /\ UNCHANGED << progress, maxProgressValue, progressValue >>

\* a SetDeviceName that leaves the address as it is
SetDeviceNameKeepsAddress(n) ==
    /\ pc = "idle" /\ calls = 0
    /\ name' = n
    /\ UNCHANGED << address, peripheral, control, packet, boot, addressChange,
                    initDataFile, firmwareFile >>
    /\ UNCHANGED << engVars, envVars, histVars >>
    /\ UNCHANGED << progress, maxProgressValue, progressValue >>

SetDeviceName(n) ==
    /\ pc = "idle" /\ calls = 0
    /\ address' = "" /\ name' = n
    /\ UNCHANGED << peripheral, control, packet, boot, addressChange,
                    initDataFile, firmwareFile >>
    /\ UNCHANGED << engVars, envVars, histVars >>
    /\ UNCHANGED << progress, maxProgressValue, progressValue >>

\* a call of Update or EnterBootloader starts
Call(op, a) ==
    /\ pc = "idle" /\ calls = 0
    /\ api' = op /\ archive' = a /\ calls' = calls + 1
    /\ pc' = "connect" /\ err' = Nil /\ result' = "running"
    /\ tries' = 0 /\ rebooted' = FALSE /\ defers' = << >> /\ ebDefers' = << >>
    /\ xfer' = NoXfer /\ request' = << >> /\ received' = << >>
    /\ leaked' = FALSE /\ wire' = << >>
    /\ consumed' = 0 /\ completed' = {}
    /\ lastRet' = NoRet /\ lastVerify' = NoRet /\ lastSelect' = NoRet
    /\ reports' = << >> /\ entered' = NotEntered /\ firstConnect' = NoRet
    /\ UNCHANGED << sessVars, envVars >>

CallUpdate == \E a \in Archives : Call("Update", a)

CallEnterBootloader == Call("EnterBootloader", NoArchive)

\* deferred functions that run in the order of their defer statements
DeferFirstInFirstOut(f, ds) == ds \o << f >>

\* a defer statement of Update or EnterBootloader: the deferred functions run
\* last registered first
Defer(f, ds) == << f >> \o ds

\* a connect that uses the name whatever the address is
ConnectTargetByName(a, n) == [by |-> "name", address |-> "", name |-> n]

\* connect: ConnectAddress with the address when there is one, else
\* ConnectName with the name
ConnectTarget(a, n) ==
    IF a # "" THEN [by |-> "address", address |-> a, name |-> << >>]
    ELSE [by |-> "name", address |-> "", name |-> n]

\* a reconnect loop that does not count its attempts
ReconnectNextUncounted(t, both) ==
    IF both THEN [pc |-> "subscribe", tries |-> 0]
    ELSE [pc |-> "reconnect", tries |-> t]

\* Update: the reconnect loop after a connect that returned nil, with t tries
\* left: it is left when control and packet are both there, or when no try
\* is left, and Update goes on to subscribe
ReconnectNext(t, both) ==
    IF both THEN [pc |-> "subscribe", tries |-> 0]
    ELSE [pc |-> IF t - 1 = 0 THEN "subscribe" ELSE "reconnect", tries |-> t - 1]

\* an Update or EnterBootloader that goes through the buttonless transition
\* whatever the first connect found
AfterConnectAlwaysEnters(op, both) == "enterBootloader"

\* Update and EnterBootloader after the first connect returned nil: with
\* control and packet both found Update goes on to subscribe and
\* EnterBootloader returns, else both enter the bootloader
AfterConnect(op, both) ==
    IF op = "Update"
    THEN IF ~both THEN "enterBootloader" ELSE "subscribe"
    ELSE IF both THEN "unwind" ELSE "enterBootloader"

\* connect, and what Update or EnterBootloader does with its result up to the
\* next operation on the transport
Connect(o) ==
    /\ pc \in {"connect", "reconnect"}
    /\ LET r == ConnectResult(o) IN
       /\ peripheral' = r.peripheral
       /\ control' = r.control /\ packet' = r.packet /\ boot' = r.boot
       /\ addressChange' = r.addressChange
       /\ leaked' = (leaked \/ peripheral # Nil)
       /\ IF ~o.connected THEN UNCHANGED envVars
          ELSE /\ linkUp' = TRUE /\ subs' = {} /\ air' = << >>
               /\ UNCHANGED << pending, origins >>
       /\ IF pc = "connect"
          THEN /\ tries' = tries
               /\ IF r.err # Nil
                  THEN /\ pc' = "unwind"
                       /\ err' = "failed to connect to peripheral"
                       /\ defers' = defers
                  ELSE /\ defers' = Defer("disconnect", defers)
                       /\ err' = Nil
                       /\ pc' = AfterConnect(api, r.control # Nil
                                                    /\ r.packet # Nil)
          ELSE /\ defers' = defers
               /\ IF r.err # Nil
                  THEN /\ pc' = "unwind" /\ err' = "failed to reconnect"
                       /\ tries' = tries
                  ELSE LET n == ReconnectNext(tries,
                                              r.control # Nil /\ r.packet # Nil)
                       IN pc' = n.pc /\ tries' = n.tries /\ err' = Nil
    /\ UNCHANGED << address, name, initDataFile, firmwareFile >>
    /\ UNCHANGED << api, archive, result, rebooted, ebDefers, xfer, request >>
    /\ UNCHANGED << calls, wire, consumed, completed >>
    /\ lastRet' = [fn |-> "connect", phase |-> pc, tries |-> tries,
                   target |-> ConnectTarget(address, name),
                   outcome |-> o, err |-> ConnectResult(o).err]
    /\ lastVerify' = NoRet /\ lastSelect' = NoRet
    /\ UNCHANGED received
    /\ UNCHANGED << progress, maxProgressValue, progressValue >>
    /\ UNCHANGED reports
    /\ UNCHANGED entered
    /\ firstConnect' =
          IF firstConnect = NoRet
          THEN LET r == ConnectResult(o)
               IN [fn |-> "connect",
                   both |-> r.err = Nil /\ r.control # Nil /\ r.packet # Nil,
                   again |-> FALSE]
          ELSE [firstConnect EXCEPT !.again = TRUE]

\* enterBootloader: subscribe to indications of the buttonless characteristic
EbSubscribeIndication ==
    /\ pc = "enterBootloader"
    /\ IF boot.h = Nil
       THEN /\ pc' = "unwind" /\ err' = Panic
            /\ UNCHANGED << ebDefers, linkUp, subs, air, entered >>
       ELSE /\ ebDefers' = << "bootI" >>
            /\ entered' = IF addressChange THEN [NotEntered EXCEPT !.kind = boot.kind]
                           ELSE [kind |-> boot.kind, address |-> address,
                                 name |-> name]
            /\ \E ok \in Outcomes(boot.h) :
                  IF ok
                  THEN /\ subs' = subs \cup {"bootI"}
                       /\ pc' = "subscribeBootN" /\ err' = Nil
                       /\ UNCHANGED << linkUp, air >>
                  ELSE /\ IF Usable(boot.h) THEN LinkDown
                          ELSE UNCHANGED << linkUp, subs, air >>
                       /\ pc' = "ebReturn"
                       /\ err' = "failed to subscribe to control characteristic"
    /\ UNCHANGED sessVars
    /\ UNCHANGED << api, archive, result, tries, rebooted, defers, xfer, request >>
    /\ UNCHANGED << pending, origins >>
    /\ UNCHANGED << calls, leaked, wire, consumed, completed >> /\ Forget
    /\ UNCHANGED received
    /\ UNCHANGED reports
    /\ UNCHANGED firstConnect

\* enterBootloader: subscribe to notifications, then, for the unbonded
\* service, generateDeviceName up to the write of the first request
EbSubscribeNotification ==
    /\ pc = "subscribeBootN"
    /\ \E ok \in Outcomes(boot.h) :
          IF ok
          THEN /\ subs' = subs \cup {"bootN"}
               /\ ebDefers' = << "bootN" >> \o ebDefers
               /\ pc' = "sendBoot" /\ err' = Nil
               /\ IF addressChange
                  THEN \E n \in GenNames :
                          /\ name' = n /\ address' = ""
                          /\ request' = AdvNameRequest(n)
                  ELSE /\ request' = << BootOpEnter >>
                       /\ UNCHANGED << name, address >>
               /\ UNCHANGED << linkUp, air >>
          ELSE /\ IF Usable(boot.h) THEN LinkDown
                  ELSE UNCHANGED << linkUp, subs, air >>
               /\ pc' = "ebReturn"
               /\ err' = "failed to subscribe to control characteristic"
               /\ UNCHANGED << ebDefers, request, name, address >>
    /\ UNCHANGED << peripheral, control, packet, boot, addressChange,
                    initDataFile, firmwareFile >>
    /\ UNCHANGED << api, archive, result, tries, rebooted, defers, xfer >>
    /\ UNCHANGED << pending, origins >>
    /\ UNCHANGED << calls, leaked, wire, consumed, completed >> /\ Forget
    /\ UNCHANGED received
    /\ UNCHANGED << progress, maxProgressValue, progressValue >>
    /\ UNCHANGED reports
    /\ UNCHANGED entered
    /\ UNCHANGED firstConnect

\* sendBoot: the write; the device answers on one or both subscription modes
SendBootWrite ==
    /\ pc = "sendBoot"
    /\ \E ok \in Outcomes(boot.h) :
          IF ok
          THEN /\ wire' = Append(wire, [ch |-> "boot", data |-> request])
               /\ pc' = "recvBoot" /\ err' = Nil
               /\ \E f \in BootFrames(request), m \in DeliveryModes :
                     air' = air \o Emit(f, m)
               /\ UNCHANGED << linkUp, subs >>
          ELSE /\ IF Usable(boot.h) THEN LinkDown
                  ELSE UNCHANGED << linkUp, subs, air >>
               /\ pc' = "ebReturn"
               /\ err' = IF request[1] = BootOpSetName
                         THEN "failed to set bootloaer advertisment name"
                         ELSE "failed to enter bootloader"
               /\ UNCHANGED wire
    /\ UNCHANGED sessVars
    /\ UNCHANGED << api, archive, result, tries, rebooted, defers, ebDefers,
                    xfer, request >>
    /\ UNCHANGED << pending, origins >>
    /\ UNCHANGED << calls, leaked, consumed, completed >> /\ Forget
    /\ UNCHANGED received
    /\ UNCHANGED reports
    /\ UNCHANGED entered
    /\ UNCHANGED firstConnect

\* sendBoot: the receive from responseChannel
SendBootReceive ==
    /\ pc = "recvBoot" /\ pending # << >>
    /\ pending' = Tail(pending) /\ received' = Head(pending)
    /\ origins' = Tail(origins)
    /\ pc' = "gotBoot"
    /\ consumed' = consumed + 1
    /\ UNCHANGED sessVars
    /\ UNCHANGED << api, archive, err, result, tries, rebooted, defers,
                    ebDefers, xfer, request >>
    /\ UNCHANGED << linkUp, subs, air >>
    /\ UNCHANGED << calls, leaked, wire, completed >> /\ Forget
    /\ UNCHANGED reports
    /\ UNCHANGED entered
    /\ UNCHANGED firstConnect

\* sendBoot from the received frame on, and enterBootloader up to the next
\* write
SendBootReturn ==
    /\ pc = "gotBoot"
    /\ received' = << >>
    /\ LET frame == received IN
       IF Len(frame) < 3
       THEN /\ pc' = "ebReturn" /\ err' = Panic
            /\ lastRet' = NoRet
            /\ UNCHANGED << request, rebooted >>
       ELSE LET e == SendBootCheck(request, frame) IN
            /\ lastRet' = [fn |-> "sendBoot", request |-> request,
                           frame |-> frame, err |-> e]
            /\ IF e # Nil
               THEN /\ pc' = "ebReturn"
                    /\ err' = IF request[1] = BootOpSetName
                              THEN "failed to set bootloaer advertisment name"
                              ELSE "failed to enter bootloader"
                    /\ UNCHANGED << request, rebooted >>
               ELSE IF request[1] = BootOpSetName
               THEN /\ pc' = "sendBoot" /\ err' = Nil
                    /\ request' = << BootOpEnter >>
                    /\ UNCHANGED rebooted
               ELSE /\ pc' = "ebReturn" /\ err' = Nil
                    /\ rebooted' = TRUE
                    /\ UNCHANGED request
    /\ UNCHANGED sessVars
    /\ UNCHANGED << api, archive, result, tries, defers, ebDefers, xfer >>
    /\ UNCHANGED envVars
    /\ lastVerify' = NoRet /\ lastSelect' = NoRet
    /\ UNCHANGED << calls, leaked, wire, consumed, completed >>
    /\ UNCHANGED reports
    /\ UNCHANGED entered
    /\ UNCHANGED firstConnect

\* a deferred function of enterBootloader that unsubscribes whatever rebooted is
DeferredUnsubscribeAlways(s, mode, reb) == s \ {mode}

\* a deferred function of enterBootloader: the subscriptions after it
DeferredUnsubscribe(s, mode, reb) == IF reb THEN s ELSE s \ {mode}

\* enterBootloader returns: its deferred functions, last registered first,
\* unsubscribe unless the device rebooted
EbDeferred ==
    /\ pc = "ebReturn" /\ ebDefers # << >>
    /\ ebDefers' = Tail(ebDefers)
    /\ subs' = DeferredUnsubscribe(subs, Head(ebDefers), rebooted)
    /\ air' = IF rebooted THEN air ELSE Without(air, Head(ebDefers))
    /\ UNCHANGED sessVars
    /\ UNCHANGED << pc, api, archive, err, result, tries, rebooted, defers,
                    xfer, request >>
    /\ UNCHANGED << linkUp, pending, origins >>
    /\ UNCHANGED << calls, leaked, wire, consumed, completed >> /\ Forget
    /\ UNCHANGED received
    /\ UNCHANGED reports
    /\ UNCHANGED entered
    /\ UNCHANGED firstConnect

\* back in the caller of enterBootloader
EbReturn ==
    /\ pc = "ebReturn" /\ ebDefers = << >>
    /\ IF err # Nil
       THEN /\ pc' = "unwind"
            /\ err' = IF err = Panic THEN Panic ELSE "failed to enter bootloader"
            /\ tries' = tries
       ELSE IF api = "Update"
       THEN /\ pc' = "reconnect" /\ tries' = ReconnectTries /\ err' = Nil
       ELSE /\ pc' = "unwind" /\ err' = Nil /\ tries' = tries
    /\ rebooted' = FALSE
    /\ request' = << >>
    /\ UNCHANGED sessVars
    /\ UNCHANGED << api, archive, result, defers, ebDefers, xfer >>
    /\ UNCHANGED envVars
    /\ UNCHANGED << calls, leaked, wire, consumed, completed >>
    /\ lastRet' = [fn |-> "enterBootloader", request |-> request, err |-> err]
    /\ lastVerify' = NoRet /\ lastSelect' = NoRet
    /\ UNCHANGED received
    /\ UNCHANGED reports
    /\ UNCHANGED entered
    /\ UNCHANGED firstConnect


\* Update: subscribe to notifications of the control characteristic
SubscribeControl ==
    /\ pc = "subscribe"
    /\ IF control = Nil
       THEN /\ pc' = "unwind" /\ err' = Panic
            /\ UNCHANGED << defers, linkUp, subs, air >>
       ELSE \E ok \in Outcomes(control) :
              IF ok
              THEN /\ subs' = subs \cup {"controlN"}
                   /\ defers' = Defer("unsubscribe", defers)
                   /\ pc' = "readArchive" /\ err' = Nil
                   /\ UNCHANGED << linkUp, air >>
              ELSE /\ IF Usable(control) THEN LinkDown
                      ELSE UNCHANGED << linkUp, subs, air >>
                   /\ pc' = "unwind"
                   /\ err' = "failed to subscribe to control characteristic"
                   /\ UNCHANGED defers
    /\ UNCHANGED sessVars
    /\ UNCHANGED << api, archive, result, tries, rebooted, ebDefers, xfer, request >>
    /\ UNCHANGED << pending, origins >>
    /\ UNCHANGED << calls, leaked, wire, consumed, completed >> /\ Forget
    /\ UNCHANGED received
    /\ UNCHANGED reports
    /\ UNCHANGED entered
    /\ UNCHANGED firstConnect

\* a zip.OpenReader that reports no error for a file it cannot open
OpenReaderNoError(a) == Nil

\* readFirmwareArchive: the error of zip.OpenReader
OpenReader(a) == IF a.open THEN Nil ELSE "open failed"

\* Update: the callback is stored, then readFirmwareArchive, then transfer up
\* to the write of SELECT
ReadFirmwareArchive ==
    /\ pc = "readArchive"
    /\ progress' = "cb" /\ UNCHANGED << progressValue, reports >>
    /\ IF Wrap(OpenReader(archive), "Cannot open zip") # Nil
       THEN /\ SetEngine(Unwinding("failed to open firmware file"))
            /\ UNCHANGED << initDataFile, firmwareFile, maxProgressValue, defers >>
       ELSE /\ initDataFile' = SelectMember(archive.members, ".dat", initDataFile)
            /\ firmwareFile' = SelectMember(archive.members, ".bin", firmwareFile)
            /\ maxProgressValue' = AddSizes(archive.members, maxProgressValue)
            /\ defers' = Defer("close", defers)
            /\ SetEngine(StartTransfer(InitType, initDataFile'))
    /\ UNCHANGED << address, name, peripheral, control, packet, boot, addressChange >>
    /\ UNCHANGED << api, archive, result, tries, rebooted, ebDefers >>
    /\ UNCHANGED envVars
    /\ UNCHANGED << calls, leaked, wire, consumed >> /\ Forget
    /\ UNCHANGED received
    /\ UNCHANGED entered
    /\ UNCHANGED firstConnect

\* sendControl: the write, and when it fails the caller's handling of the error
SendControlWrite ==
    /\ pc = "sendControl"
    /\ IF control = Nil
       THEN /\ SetEngine(Unwinding(Panic))
            /\ UNCHANGED << wire, linkUp, subs, air >>
       ELSE \E ok \in Outcomes(control) :
              IF ok
              THEN /\ wire' = Append(wire, [ch |-> "control", data |-> request])
                   /\ SetEngine(AwaitResponse(xfer, request))
                   /\ \E f \in ControlFrames(request, xfer.data, xfer.end) :
                         air' = air \o Emit(f, {"controlN"})
                   /\ UNCHANGED << linkUp, subs >>
              ELSE /\ IF Usable(control) THEN LinkDown
                      ELSE UNCHANGED << linkUp, subs, air >>
                   /\ SetEngine(AfterControl(xfer, request,
                          [resp |-> << >>,
                           err |-> "failed to write to control characteristic"]))
                   /\ UNCHANGED wire
    /\ UNCHANGED sessVars
    /\ UNCHANGED << api, archive, result, tries, rebooted, defers, ebDefers >>
    /\ UNCHANGED << pending, origins >>
    /\ UNCHANGED << calls, leaked, consumed >> /\ Forget
    /\ UNCHANGED received
    /\ UNCHANGED reports
    /\ UNCHANGED entered
    /\ UNCHANGED firstConnect

\* sendControl: the receive from responseChannel
SendControlReceive ==
    /\ pc = "recvControl" /\ pending # << >>
    /\ pending' = Tail(pending) /\ received' = Head(pending)
    /\ origins' = Tail(origins)
    /\ pc' = "gotControl"
    /\ consumed' = consumed + 1
    /\ UNCHANGED sessVars
    /\ UNCHANGED << api, archive, err, result, tries, rebooted, defers,
                    ebDefers, xfer, request >>
    /\ UNCHANGED << linkUp, subs, air >>
    /\ UNCHANGED << calls, leaked, wire, completed >> /\ Forget
    /\ UNCHANGED reports
    /\ UNCHANGED entered
    /\ UNCHANGED firstConnect

\* sendControl from the received frame on, and its caller up to the next write
SendControlReturn ==
    /\ pc = "gotControl"
    /\ received' = << >>
    /\ LET frame == received
           r == SendControlCheck(request[1], frame)
       IN /\ SetEngine(ControlReceived(xfer, request, frame))
          /\ lastRet' = IF Len(frame) < 3
                        THEN [fn |-> "sendControl panics", request |-> request,
                              frame |-> frame, err |-> Panic]
                        ELSE [fn |-> "sendControl", request |-> request,
                              frame |-> frame, err |-> r.err]
          /\ lastSelect' =
                IF Len(frame) >= 3 /\ request[1] = DFU_OP_OBJECT_SELECT
                THEN [fn |-> "sendSelect", type |-> xfer.type,
                      data |-> xfer.data, response |-> SendSelect(r)]
                ELSE NoRet
          /\ lastVerify' =
                IF Len(frame) >= 3 /\ request[1] = DFU_OP_CRC_GET
                THEN [fn |-> "verifyCrc", data |-> xfer.data, end |-> xfer.end,
                      type |-> xfer.type,
                      branch |-> VerifyCrcBranch(xfer.data, xfer.end,
                                                 SendCrcGet(r)),
                      response |-> SendCrcGet(r),
                      err |-> VerifyCrc(xfer.data, xfer.end, SendCrcGet(r))]
                ELSE NoRet
    /\ UNCHANGED sessVars
    /\ UNCHANGED << api, archive, result, tries, rebooted, defers, ebDefers >>
    /\ UNCHANGED envVars
    /\ UNCHANGED << calls, leaked, wire, consumed >>
    /\ UNCHANGED reports
    /\ UNCHANGED entered
    /\ UNCHANGED firstConnect

\* sendData: one write to the packet characteristic, without response
SendDataWrite ==
    /\ pc = "sendData"
    /\ IF packet = Nil
       THEN /\ SetEngine(Unwinding(Panic))
            /\ UNCHANGED << wire, linkUp, subs, air, progressValue, reports >>
       ELSE \E ok \in Outcomes(packet) :
              IF ok
              THEN /\ wire' = Append(wire,
                         [ch |-> "packet",
                          data |-> Fragment(SubSeq(xfer.data, xfer.i + 1, xfer.end),
                                            xfer.j)])
                   /\ progressValue' =
                         UpdateProgress(progressValue,
                                        Min(xfer.j + chunkSize, xfer.end - xfer.i)
                                           - xfer.j)
                   /\ reports' = IF progress = Nil THEN reports
                                 ELSE Append(reports,
                                             [current |-> progressValue',
                                              total |-> maxProgressValue])
                   /\ SetEngine(AfterFragment(xfer))
                   /\ UNCHANGED << linkUp, subs, air >>
              ELSE /\ IF Usable(packet) THEN LinkDown
                      ELSE UNCHANGED << linkUp, subs, air >>
                   /\ SetEngine(TransferReturn(xfer, "failed to write object"))
                   /\ UNCHANGED << wire, progressValue, reports >>
    /\ UNCHANGED << address, name, peripheral, control, packet, boot, addressChange,
                    initDataFile, firmwareFile, progress, maxProgressValue >>
    /\ UNCHANGED << api, archive, result, tries, rebooted, defers, ebDefers >>
    /\ UNCHANGED << pending, origins >>
    /\ UNCHANGED << calls, leaked, consumed >> /\ Forget
    /\ UNCHANGED received
    /\ UNCHANGED entered
    /\ UNCHANGED firstConnect

\* Update and EnterBootloader return or panic: the deferred functions run,
\* last registered first: close the archive, unsubscribe, disconnect
Deferred ==
    /\ pc = "unwind" /\ defers # << >>
    /\ defers' = Tail(defers)
    /\ IF Head(defers) = "unsubscribe"
       THEN /\ subs' = subs \ {"controlN"}
            /\ air' = Without(air, "controlN")
            /\ UNCHANGED << linkUp, peripheral, control, packet, boot >>
       ELSE IF Head(defers) = "disconnect" /\ peripheral # Nil
       THEN /\ peripheral' = Nil /\ control' = Nil /\ packet' = Nil
            /\ boot' = [h |-> Nil, kind |-> Nil]
            /\ linkUp' = FALSE /\ subs' = {} /\ air' = << >>
       ELSE UNCHANGED << linkUp, subs, air, peripheral, control, packet, boot >>
    /\ IF Head(defers) = "close"
       THEN /\ initDataFile' = Close(initDataFile)
            /\ firmwareFile' = Close(firmwareFile)
       ELSE UNCHANGED << initDataFile, firmwareFile >>
    /\ UNCHANGED << address, name, addressChange >>
    /\ UNCHANGED << pc, api, archive, err, result, tries, rebooted, ebDefers,
                    xfer, request >>
    /\ UNCHANGED << pending, origins >>
    /\ UNCHANGED << calls, leaked, wire, consumed, completed >> /\ Forget
    /\ UNCHANGED received
    /\ UNCHANGED << progress, maxProgressValue, progressValue >>
    /\ UNCHANGED reports
    /\ UNCHANGED entered
    /\ UNCHANGED firstConnect

\* the call is over: it returned nil or an error, or the process panicked
Return ==
    /\ pc = "unwind" /\ defers = << >>
    /\ result' = IF err = Panic THEN "panic" ELSE IF err = Nil THEN "ok" ELSE "error"
    /\ pc' = IF err = Panic THEN "crashed" ELSE "idle"
    /\ UNCHANGED sessVars
    /\ UNCHANGED << api, archive, err, tries, rebooted, defers, ebDefers, xfer,
                    request >>
    /\ UNCHANGED envVars
    /\ UNCHANGED << calls, leaked, wire, consumed, completed >> /\ Forget
    /\ UNCHANGED received
    /\ UNCHANGED reports
    /\ UNCHANGED entered
    /\ UNCHANGED firstConnect

(***************************************************************************)
(* The transport and the device.                                           *)
(***************************************************************************)
\* the transport calls the subscription callback with the next frame; the
\* callback blocks on the unbuffered responseChannel until the engine receives
Deliver ==
    /\ air # << >>
    /\ pending' = Append(pending, Head(air).frame)
    /\ origins' = Append(origins, Head(air).req)
    /\ air' = Tail(air)
    /\ UNCHANGED << linkUp, subs >>
    /\ UNCHANGED << sessVars, engVars, histVars >>

\* the device drops the link (it reboots, or goes out of range) while the
\* engine is blocked on the empty responseChannel; a link lost at another
\* moment shows as the failure of the engine's next operation on it
LinkLost ==
    /\ linkUp /\ pc \in {"recvControl", "recvBoot"} /\ pending = << >>
    /\ LinkDown
    /\ UNCHANGED << pending, origins >>
    /\ UNCHANGED << sessVars, engVars, histVars >>

Next ==
    \/ SetDeviceAddress(UserAddress)
    \/ SetDeviceName(UserName)
    \/ CallUpdate
    \/ CallEnterBootloader
    \/ \E o \in ConnectOutcomes : Connect(o)
    \/ EbSubscribeIndication
    \/ EbSubscribeNotification
    \/ SendBootWrite
    \/ SendBootReceive
    \/ SendBootReturn
    \/ EbDeferred
    \/ EbReturn
    \/ SubscribeControl
    \/ ReadFirmwareArchive
    \/ SendControlWrite
    \/ SendControlReceive
    \/ SendControlReturn
    \/ SendDataWrite
    \/ Deferred
    \/ Return
    \/ Deliver
    \/ LinkLost

Spec == Init /\ [][Next]_vars

\* the session after an Update of Archive(Payload(5, 3), Payload(MaxLen, 40))
\* with an address set returned nil, or a session just made
InitAfterUpdate ==
    \/ Init
    \/ /\ address = UserAddress /\ name = << >>
       /\ peripheral = Nil /\ control = Nil /\ packet = Nil
       /\ boot = [h |-> Nil, kind |-> Nil]
       /\ addressChange = FALSE
       /\ initDataFile = Close(File(Payload(5, 3)))
       /\ firmwareFile = Close(File(Payload(MaxLen, 40)))
       /\ progress = "cb"
       /\ maxProgressValue = 5 + MaxLen /\ progressValue = 5 + MaxLen
       /\ reports = << >> /\ entered = NotEntered /\ firstConnect = NoRet
       /\ pc = "idle" /\ api = "none" /\ archive = NoArchive
       /\ err = Nil /\ result = "none"
       /\ tries = 0 /\ rebooted = FALSE /\ defers = << >> /\ ebDefers = << >>
       /\ xfer = NoXfer /\ request = << >> /\ received = << >>
       /\ linkUp = FALSE /\ subs = {} /\ air = << >>
       /\ pending = << >> /\ origins = << >>
       /\ calls = 0 /\ leaked = FALSE /\ wire = << >>
       /\ consumed = 0 /\ completed = {}
       /\ lastRet = NoRet /\ lastVerify = NoRet /\ lastSelect = NoRet

\* the first Update or EnterBootloader of a session, or the one after an
\* Update that succeeded
SpecAfterUpdate == InitAfterUpdate /\ [][Next]_vars

\* a callback holding a frame gets to send it on responseChannel, and a
\* receive on responseChannel goes through once a callback is sending
FairSpec ==
    /\ Spec
    /\ WF_vars(Deliver)
    /\ WF_vars(SendControlReceive)
    /\ WF_vars(SendBootReceive)

(***************************************************************************)
(* Properties.                                                             *)
(***************************************************************************)
\* the engine is blocked on responseChannel in sendControl or sendBoot
Waiting == pc \in {"recvControl", "recvBoot"}

\* v records a CRC_GET response the engine decoded
CrcGetDecoded(v) == v.fn = "verifyCrc" /\ v.response.err = Nil

\* the decoded CRC_GET response reports the end of the chunk and the checksum
\* of the payload up to it
CrcGetMatches(v) ==
    /\ v.response.Offset = v.end
    /\ v.response.Crc32 = ChecksumIEEE(SubSeq(v.data, 1, v.end))

\* r records a frame of a response that is not a success response with the
\* given code for the request
Deviates(r, code) ==
    \/ r.frame[1] # code
    \/ r.frame[2] # r.request[1]
    \/ r.frame[3] # DFU_RESULT_SUCCESS

\* s records a decoded SELECT response that reports the whole payload
SelectMatches(s) ==
    /\ s.fn = "sendSelect" /\ s.response.err = Nil
    /\ s.response.Offset = Len(s.data)
    /\ s.response.Crc32 = ChecksumIEEE(s.data)

\* the writes that follow the SELECT of an object type, up to the next SELECT
RECURSIVE WrittenFor(_, _, _)
WrittenFor(w, type, cur) ==
    IF w = << >> THEN << >>
    ELSE LET h == Head(w)
             isSelect == h.ch = "control" /\ h.data[1] = DFU_OP_OBJECT_SELECT
             c == IF isSelect THEN h.data[2] ELSE cur
         IN (IF c = type /\ ~isSelect THEN << h >> ELSE << >>)
            \o WrittenFor(Tail(w), type, c)

\* the bytes of the writes to the packet characteristic, in order
RECURSIVE PacketData(_)
PacketData(w) ==
    IF w = << >> THEN << >>
    ELSE (IF Head(w).ch = "packet" THEN Head(w).data ELSE << >>)
         \o PacketData(Tail(w))

PayloadOf(type) == IF type = InitType THEN initDataFile[1] ELSE firmwareFile[1]

\* C1: EXECUTE is about to be written only when the CRC_GET response just
\* decoded reported the chunk's end and the checksum of the payload up to it;
\* and once a decoded CRC_GET response reports another offset or checksum the
\* transfer is over: nothing more is written for this or a later chunk
C1_ExecuteOnlyAfterMatchingCrc ==
    /\ (pc = "sendControl" /\ request = << DFU_OP_OBJECT_EXECUTE >>)
          => (CrcGetDecoded(lastVerify) /\ CrcGetMatches(lastVerify))
    /\ (CrcGetDecoded(lastVerify) /\ ~CrcGetMatches(lastVerify))
          => pc = "unwind"

\* C2: verifyCrc returns an error when the CRC_GET response it decoded reports
\* an offset other than the chunk's end or a checksum other than the
\* payload's, and so does Update
C2_VerifyCrcRejectsMismatch ==
    (CrcGetDecoded(lastVerify) /\ ~CrcGetMatches(lastVerify))
       => (lastVerify.err # Nil /\ err # Nil)

\* C3: sendControl returns an error when the frame it received does not start
\* with 0x60, the opcode of the request and the success code
C3_SendControlRejectsDeviation ==
    (lastRet.fn = "sendControl" /\ Deviates(lastRet, DFU_OP_RESPONSE))
       => lastRet.err # Nil

\* C4: sendBoot returns an error when the frame it received does not start
\* with 0x20, the opcode of the request and the success code, and after such
\* a response to Set Advertisement Name, Enter Bootloader is not sent
C4_SendBootRejectsDeviation ==
    (lastRet.fn = "sendBoot" /\ Deviates(lastRet, BootResponseCode))
       => /\ lastRet.err # Nil
          /\ ~(pc = "sendBoot" /\ request = << BootOpEnter >>)

\* C5: when the link is lost while the engine is blocked waiting for a
\* response, the engine is eventually unblocked
C5_WaiterUnblockedOnLinkLoss == (Waiting /\ ~linkUp) ~> ~Waiting

\* C6: the requests written and the frames consumed go in step: a request is
\* outstanding exactly while the engine waits for its response, and every
\* other request written had one frame consumed for it
C6_OneRequestOutstanding ==
    Requests(wire) - consumed = IF Waiting THEN 1 ELSE 0

C6_Witness ==
    /\ pc = "recvControl" /\ consumed >= 4
    /\ \E k \in 1..Len(wire) : wire[k].ch = "boot"

\* C7: at most one frame is waiting to be deposited on responseChannel
C7_OneFramePending == Len(pending) <= 1

\* C8: when Update or EnterBootloader has returned, every peripheral a connect
\* of the call obtained had Disconnect called on it
C8_EveryPeripheralDisconnected ==
    result \in {"ok", "error"} => (~leaked /\ peripheral = Nil)

\* C9: for every payload whose transfer returned nil without the resume
\* check passing, the writes to the packet characteristic issued for it,
\* concatenated in order, are the payload
C9_PacketWritesArePayload ==
    \A c \in completed :
        ~c.skipped => PacketData(WrittenFor(wire, c.type, 0)) = PayloadOf(c.type)

C9_Witness ==
    /\ [type |-> ImageType, skipped |-> FALSE] \in completed
    /\ Len(firmwareFile[1]) > 2 * chunkSize
    /\ \E k \in 1..Len(wire) :
          wire[k].ch = "packet" /\ Len(wire[k].data) < chunkSize

\* C10: when the decoded SELECT response reports the payload's length and
\* checksum, transfer returns nil at once and Update goes on with the next
\* payload or returns nil; nothing but the SELECT is ever written for that
\* payload
C10_ResumeSkipsPayload ==
    /\ SelectMatches(lastSelect)
          => /\ [type |-> lastSelect.type, skipped |-> TRUE] \in completed
             /\ IF lastSelect.type = InitType
                THEN firmwareFile # NilFile
                        => /\ pc = "sendControl"
                           /\ request = << DFU_OP_OBJECT_SELECT, ImageType >>
                ELSE pc = "unwind" /\ err = Nil
    /\ \A c \in completed :
          c.skipped => WrittenFor(wire, c.type, 0) = << >>

C10_Witness ==
    /\ [type |-> InitType, skipped |-> TRUE] \in completed
    /\ [type |-> ImageType, skipped |-> TRUE] \in completed
    /\ Len(initDataFile[1]) > 0
    /\ result = "ok"

\* the entry of wire is a SELECT or CREATE request for the object type
RequestFor(w, type) ==
    /\ w.ch = "control"
    /\ w.data[1] \in {DFU_OP_OBJECT_SELECT, DFU_OP_OBJECT_CREATE}
    /\ w.data[2] = type

\* C11: while the init packet is transferred nothing has been written for
\* the image; the image transfer runs, and a request for the image is on the
\* wire, only after the init transfer returned nil; and no request for the
\* init packet follows a request for the image
C11_InitBeforeImage ==
    /\ xfer.type = InitType
          => \A k \in 1..Len(wire) : ~RequestFor(wire[k], ImageType)
    /\ (xfer.type = ImageType
        \/ \E k \in 1..Len(wire) : RequestFor(wire[k], ImageType))
          => \E c \in completed : c.type = InitType
    /\ \A j, k \in 1..Len(wire) :
          (j < k /\ RequestFor(wire[j], ImageType))
             => ~RequestFor(wire[k], InitType)

C11_Witness ==
    /\ xfer.type = ImageType
    /\ \E j, k \in 1..Len(wire) :
          /\ j < k /\ wire[j].ch = "packet"
          /\ RequestFor(wire[k], ImageType)
          /\ wire[k].data[1] = DFU_OP_OBJECT_CREATE

\* r records a connect that returned
Connected(r) == r.fn = "connect" /\ r.outcome.connected

\* the connection has the DFU service with both control and packet
ExposesPair(o) ==
    o.connected /\ o.service /\ {"control", "packet"} \subseteq o.chars

\* the connection has the DFU service with a buttonless characteristic
ExposesButtonless(o) ==
    o.connected /\ o.service /\ o.chars \cap {"bonded", "unbonded"} # {}

\* C12: when the connected device has neither control and packet nor a
\* buttonless characteristic, connect returns an error and the call is over
\* with an error, before any request
C12_ConnectRejectsNoDfu ==
    (Connected(lastRet) /\ ~ExposesPair(lastRet.outcome)
                        /\ ~ExposesButtonless(lastRet.outcome))
       => (lastRet.err # Nil /\ pc = "unwind" /\ err \notin {Nil, Panic})

\* C13: after a connect to a device with the DFU service: with control and
\* packet the first connect of a call does not lead to enterBootloader;
\* without them the bonded buttonless characteristic is chosen when there is
\* one, else the unbonded one, and addressChange tells that the chosen one is
\* the unbonded one
C13_ModeDetection ==
    (Connected(lastRet) /\ lastRet.outcome.service)
       => IF ExposesPair(lastRet.outcome)
          THEN lastRet.phase = "connect" => pc \in {"subscribe", "unwind"}
          ELSE /\ boot.kind = IF "bonded" \in lastRet.outcome.chars THEN "bonded"
                              ELSE IF "unbonded" \in lastRet.outcome.chars
                              THEN "unbonded" ELSE Nil
               /\ boot.h # Nil => (addressChange <=> boot.kind = "unbonded")
               /\ (boot.h # Nil /\ lastRet.phase = "connect")
                     => pc = "enterBootloader"

C13_Witness ==
    /\ Connected(lastRet) /\ lastRet.phase = "connect"
    /\ lastRet.outcome.chars = {"bonded", "unbonded"}
    /\ boot.kind = "bonded" /\ ~addressChange /\ pc = "enterBootloader"

\* C14: the reconnect loop starts with 5 tries and is in its k-th attempt with
\* 6 - k tries left, so there are at most 5 attempts; an attempt that finds
\* control and packet ends the loop; and the loop goes round, after its wait,
\* only with one try less and at least one left, so there are at most 4 waits
C14_ReconnectAtMostFive ==
    /\ [](pc = "reconnect" => tries \in 1..5)
    /\ [][(pc # "reconnect" /\ pc' = "reconnect") => tries' = 5]_vars
    /\ [][(pc = "reconnect" /\ lastRet'.fn = "connect")
            => /\ ExposesPair(lastRet'.outcome) => pc' = "subscribe"
               /\ pc' = "reconnect"
                     => (tries' = tries - 1 /\ ~ExposesPair(lastRet'.outcome))]_vars
    /\ [][(pc = "reconnect" /\ lastRet'.fn # "connect")
            => (pc' = pc /\ tries' = tries)]_vars

C14_Witness ==
    /\ pc = "reconnect" /\ tries = 1
    /\ Connected(lastRet) /\ lastRet.phase = "reconnect" /\ lastRet.tries = 2

\* C15: when the fifth reconnect attempt too yields no connection with control
\* and packet, Update is over with an error: it does not go on to subscribe
C15_ReconnectExhausted ==
    (lastRet.fn = "connect" /\ lastRet.phase = "reconnect" /\ lastRet.tries = 1
        /\ ~ExposesPair(lastRet.outcome))
       => (pc = "unwind" /\ err \notin {Nil, Panic})

\* C16: a reconnect attempt whose connection fails, with tries left after
\* it, is followed by the next attempt with one try less
C16_FailedConnectRetried ==
    (lastRet.fn = "connect" /\ lastRet.phase = "reconnect"
        /\ ~lastRet.outcome.connected /\ lastRet.tries > 1)
       => (pc = "reconnect" /\ tries = lastRet.tries - 1)

\* C17: when sendSelect or verifyCrc returns an error, transfer is over with
\* an error and nothing more is written
C17_TransferStopsOnError ==
    /\ (lastSelect.fn = "sendSelect" /\ lastSelect.response.err # Nil)
          => (pc = "unwind" /\ err \notin {Nil, Panic})
    /\ (lastVerify.fn = "verifyCrc" /\ lastVerify.err # Nil)
          => (pc = "unwind" /\ err \notin {Nil, Panic})

\* the current value of the last call of the progress callback, 0 before the
\* first one
LastCurrent(r) == IF r = << >> THEN 0 ELSE r[Len(r)].current

\* C18: when Update has returned success, the last call of the progress
\* callback had current equal to total
C18_FinalProgressIsTotal ==
    (api = "Update" /\ result = "ok" /\ reports # << >>)
       => reports[Len(reports)].current = reports[Len(reports)].total

\* C19: the current values of the progress callback never decrease; a write
\* to the packet characteristic that succeeded is followed by one callback
\* whose current is the one before plus the number of bytes written, and no
\* other step, a failed write among them, calls the callback or changes
\* progressValue
C19_ProgressCountsBytesWritten ==
    /\ [](\A j, k \in 1..Len(reports) :
             j < k => reports[j].current <= reports[k].current)
    /\ [][IF Len(wire') = Len(wire) + 1 /\ wire'[Len(wire')].ch = "packet"
          THEN /\ Len(reports') = Len(reports) + 1
               /\ SubSeq(reports', 1, Len(reports)) = reports
               /\ LastCurrent(reports')
                     = LastCurrent(reports) + Len(wire'[Len(wire')].data)
               /\ progressValue' = LastCurrent(reports')
          ELSE reports' = reports /\ progressValue' = progressValue]_vars

\* a fragment shorter than chunkSize was written and reported after another
\* one, and the next write to the packet characteristic failed
C19_Witness ==
    /\ Len(reports) >= 2
    /\ reports[Len(reports)].current - reports[Len(reports) - 1].current
          \in 1..(chunkSize - 1)
    /\ wire[Len(wire)].ch = "control"
    /\ wire[Len(wire)].data[1] = DFU_OP_OBJECT_CREATE
    /\ consumed = Cardinality({k \in 1..Len(wire) : wire[k].ch = "control"})
    /\ pc = "unwind" /\ err = "failed to transfer firmware data"

\* the size of a selected member, 0 when there is none
SizeOf(file) == IF file = NilFile THEN 0 ELSE Len(file[1])

\* C20: the total of every call of the progress callback is the size of the
\* selected .dat member plus the size of the selected .bin member
C20_TotalIsSelectedPayloads ==
    \A k \in 1..Len(reports) :
        reports[k].total = SizeOf(initDataFile) + SizeOf(firmwareFile)

\* C21: once Update has read an archive without a .dat member or without a
\* .bin member, it is over with an error: it neither panics nor goes on to a
\* transfer
C21_MissingMemberRejected ==
    (api = "Update" /\ archive.open /\ progress # Nil
        /\ (initDataFile = NilFile \/ firmwareFile = NilFile))
       => (pc \in {"unwind", "idle"} /\ err \notin {Nil, Panic} /\ wire = << >>)

\* the requests written to the buttonless characteristic, in order
BootRequests(w) == SelectSeq(w, LAMBDA e : e.ch = "boot")

\* the step writes a request to the buttonless characteristic
BootWritten ==
    Len(wire') = Len(wire) + 1 /\ wire'[Len(wire')].ch = "boot"

\* "Dfu" and ten lower-case letters
IsGeneratedName(n) ==
    /\ Len(n) = 13
    /\ SubSeq(n, 1, 3) = << 68, 102, 117 >>
    /\ \A k \in 4..13 : n[k] \in 97..122

\* r records a connect of the reconnect loop
Reconnected(r) == r.fn = "connect" /\ r.phase = "reconnect"

\* C22: with the unbonded buttonless characteristic: a request is written to
\* it only with its indication and its notification subscription in place;
\* the first request is 02, 13 and a generated name, the second and last one
\* is 01 and is written after a frame was received; from the first request
\* on the address is empty and the name is the generated one, and every
\* reconnect is a connect by that name
C22_UnbondedTransitionOrder ==
    /\ [][BootWritten => {"bootI", "bootN"} \subseteq subs]_vars
    /\ [](entered.kind = "unbonded"
            => LET b == BootRequests(wire) IN
               /\ Len(b) <= 2
               /\ Len(b) >= 1
                     => /\ b[1].data[1] = 2 /\ b[1].data[2] = 13
                        /\ Len(b[1].data) = 15
                        /\ IsGeneratedName(SubSeq(b[1].data, 3, 15))
                        /\ address = "" /\ name = SubSeq(b[1].data, 3, 15)
               /\ Len(b) = 2 => (b[2].data = << 1 >> /\ consumed >= 1)
               /\ Reconnected(lastRet)
                     => /\ Len(b) = 2
                        /\ lastRet.target.by = "name"
                        /\ lastRet.target.name = SubSeq(b[1].data, 3, 15))

C22_Witness ==
    /\ entered.kind = "unbonded"
    /\ Reconnected(lastRet) /\ lastRet.tries < 5
    /\ Len(BootRequests(wire)) = 2

\* C23: with the bonded buttonless characteristic the only request written to
\* it is 01, the address and the name stay what they were when
\* enterBootloader started, which is what the first connect used, and every
\* reconnect uses them as the first connect did
C23_BondedTransitionKeepsTarget ==
    /\ [][(pc = "enterBootloader" /\ entered'.kind = "bonded")
             => /\ lastRet.fn = "connect" /\ lastRet.phase = "connect"
                /\ lastRet.target.address = entered'.address
                /\ lastRet.target.by = "name" => lastRet.target.name = entered'.name]_vars
    /\ [](entered.kind = "bonded"
            => LET b == BootRequests(wire) IN
               /\ Len(b) <= 1
               /\ \A k \in 1..Len(b) : b[k].data = << 1 >>
               /\ address = entered.address /\ name = entered.name
               /\ Reconnected(lastRet)
                     => /\ Len(b) = 1
                        /\ lastRet.target.by
                              = IF entered.address # "" THEN "address" ELSE "name"
                        /\ lastRet.target.address = entered.address
                        /\ lastRet.target.by = "name"
                              => lastRet.target.name = entered.name)

C23_Witness ==
    /\ entered.kind = "bonded" /\ entered.address # ""
    /\ Reconnected(lastRet) /\ lastRet.tries < 5
    /\ lastRet.target.by = "address"
    /\ Len(BootRequests(wire)) = 1

\* C24: a deferred function of enterBootloader leaves the subscriptions
\* alone when enterBootloader returns nil, which it does only after Enter
\* Bootloader succeeded, and unsubscribes its mode otherwise; when
\* enterBootloader has returned an error, no subscription to the buttonless
\* characteristic is left
C24_UnsubscribeUnlessRebooted ==
    /\ [][(pc = "ebReturn" /\ ebDefers' # ebDefers)
             => IF err = Nil THEN subs' = subs
                ELSE Head(ebDefers) \notin subs']_vars
    /\ []((pc = "ebReturn" /\ err = Nil)
             => /\ lastRet.fn = "sendBoot" => lastRet.request = << 1 >>
                /\ BootRequests(wire)[Len(BootRequests(wire))].data = << 1 >>)
    /\ []((pc = "ebReturn" /\ ebDefers = << >> /\ err # Nil)
             => subs \cap {"bootI", "bootN"} = {})

C24_Witness ==
    /\ pc = "ebReturn" /\ ebDefers = << >> /\ err = Nil
    /\ {"bootI", "bootN"} \subseteq subs

\* C25: when enterBootloader has returned to Update with an error after the
\* Enter Bootloader request failed, Update goes on to the reconnect
C25_EnterFailureStillReconnects ==
    (api = "Update" /\ lastRet.fn = "enterBootloader"
        /\ lastRet.request = << 1 >> /\ lastRet.err \notin {Nil, Panic})
       => pc = "reconnect"

\* the step writes a request to the control characteristic
ControlWritten ==
    Len(wire') = Len(wire) + 1 /\ wire'[Len(wire')].ch = "control"

\* the step is the deferred disconnect of Update or EnterBootloader
Disconnecting ==
    pc = "unwind" /\ defers # << >> /\ Head(defers) = "disconnect"
       /\ defers' = Tail(defers)

\* C26: a request is written to the control characteristic only with the
\* subscription to it in place; while the subscription is in place its
\* Unsubscribe is a deferred function that runs before the deferred
\* disconnect, so at the disconnect no subscription and no Unsubscribe is
\* left; and when the subscribe failed, no request was written to the
\* control characteristic
C26_ControlSubscriptionScoped ==
    /\ [][ControlWritten => "controlN" \in subs]_vars
    /\ []("controlN" \in subs
            => \E j \in 1..Len(defers) :
                  /\ defers[j] = "unsubscribe"
                  /\ \A k \in 1..Len(defers) : defers[k] = "disconnect" => j < k)
    /\ [][Disconnecting
            => /\ "controlN" \notin subs
               /\ \A k \in 1..Len(defers) : defers[k] # "unsubscribe"]_vars
    /\ []((pc = "unwind" /\ err = "failed to subscribe to control characteristic")
            => \A k \in 1..Len(wire) : wire[k].ch # "control")

C26_Witness ==
    /\ pc = "unwind" /\ defers = << "disconnect" >> /\ linkUp
    /\ "controlN" \notin subs
    /\ \E k \in 1..Len(wire) : wire[k].ch = "control"

\* C27: when sendControl received a frame of fewer than three bytes, it has
\* returned an error: the engine has not panicked and does not go on
C27_ShortFrameRejected ==
    (lastRet.fn \in {"sendControl", "sendControl panics"} /\ Len(lastRet.frame) < 3)
       => (lastRet.err \notin {Nil, Panic} /\ pc = "unwind" /\ err \notin {Nil, Panic})

\* what an entry of wire is: a buttonless request, a Packet write, or the
\* opcode of a control request
Operation(e) ==
    IF e.ch = "control" THEN e.data[1] ELSE IF e.ch = "packet" THEN 0 ELSE 255

\* where a payload's transfer is after an operation, given where it was:
\* "bad" when the operation is out of order
OrderStep(s, op) ==
    IF op = 255 THEN (IF s = "idle" THEN "idle" ELSE "bad")
    ELSE IF op = DFU_OP_OBJECT_SELECT
    THEN (IF s \in {"idle", "selected", "executed"} THEN "selected" ELSE "bad")
    ELSE IF op = DFU_OP_OBJECT_CREATE
    THEN (IF s \in {"selected", "executed"} THEN "created" ELSE "bad")
    ELSE IF op = 0
    THEN (IF s \in {"created", "written"} THEN "written" ELSE "bad")
    ELSE IF op = DFU_OP_CRC_GET
    THEN (IF s \in {"created", "written"} THEN "verified" ELSE "bad")
    ELSE IF op = DFU_OP_OBJECT_EXECUTE
    THEN (IF s = "verified" THEN "executed" ELSE "bad")
    ELSE "bad"

RECURSIVE OrderState(_, _)
OrderState(w, k) ==
    IF k = 0 THEN "idle" ELSE OrderStep(OrderState(w, k - 1), Operation(w[k]))

Creates(w, type) ==
    SelectSeq(w, LAMBDA e : RequestFor(e, type) /\ e.data[1] = DFU_OP_OBJECT_CREATE)

\* the length a CREATE request carries
CreateLength(e) == Uint32(SubSeq(e.data, 3, 6))

\* the number of control requests with the opcode among the entries
CountOf(w, opcode) ==
    Cardinality({k \in 1..Len(w) : w[k].ch = "control" /\ w[k].data[1] = opcode})

\* the number of chunks of at most m bytes in n bytes
Ceil(n, m) == (n + m - 1) \div m

\* C29: in a transfer of n bytes for which SELECT reported max_size m > 0,
\* the k-th CREATE carries the length min(m, n - (k - 1) * m), which is in
\* 1..m, and there are at most ceil(n / m) of them; when the transfer
\* returns after its last EXECUTE there were exactly ceil(n / m) CREATE,
\* CRC_GET and EXECUTE requests
C29_CreateLengths ==
    /\ []((xfer.type \in {InitType, ImageType} /\ xfer.max > 0)
            => LET c == Creates(wire, xfer.type)
                   n == Len(xfer.data)
                   m == xfer.max
               IN /\ Len(c) <= Ceil(n, m)
                  /\ \A k \in 1..Len(c) :
                        /\ CreateLength(c[k]) = Min(m, n - (k - 1) * m)
                        /\ CreateLength(c[k]) \in 1..m)
    /\ [][(xfer.max > 0 /\ [type |-> xfer.type, skipped |-> FALSE] \in completed'
              /\ [type |-> xfer.type, skipped |-> FALSE] \notin completed)
            => LET ops == WrittenFor(wire, xfer.type, 0)
                   cycles == Ceil(Len(xfer.data), xfer.max)
               IN /\ Len(Creates(wire, xfer.type)) = cycles
                  /\ CountOf(ops, DFU_OP_CRC_GET) = cycles
                  /\ CountOf(ops, DFU_OP_OBJECT_EXECUTE) = cycles]_vars

C29_Witness ==
    /\ [type |-> ImageType, skipped |-> FALSE] \in completed
    /\ Len(Creates(wire, ImageType)) = 3
    /\ CreateLength(Creates(wire, ImageType)[3]) = 5
    /\ result = "ok"

\* the Packet writes of the transfer of the object type, in order
PacketsFor(w, type) == SelectSeq(WrittenFor(w, type, 0), LAMBDA e : e.ch = "packet")

\* the number of bytes of the last Packet write of the transfer
LastPacketLength(w, type) ==
    Len(PacketsFor(w, type)[Len(PacketsFor(w, type))].data)

\* the transfer of the object type has returned after its last EXECUTE
Transferred(type) == [type |-> type, skipped |-> FALSE] \in completed

\* C30 as stated: after the transfer of a payload whose length n is not
\* divisible by 20, the last Packet write carried n % 20 bytes
C30_FinalFragmentIsPayloadRemainder ==
    \A type \in {InitType, ImageType} :
        (Transferred(type) /\ Len(PayloadOf(type)) % 20 # 0)
           => LastPacketLength(wire, type) = Len(PayloadOf(type)) % 20

\* C30 amended: when the transfer of a payload of n > 0 bytes with max_size
\* m > 0 returns after its last EXECUTE, the last Packet write carried
\* l % 20 bytes, or 20 when that is 0, where l = n - m * (ceil(n / m) - 1) is
\* the length of the last chunk; that is n % 20 when n is not divisible by
\* 20 and m is a multiple of 20 or at least n
C30_FinalFragmentIsChunkRemainder ==
    [][(xfer.max > 0 /\ Len(xfer.data) > 0
           /\ [type |-> xfer.type, skipped |-> FALSE] \in completed'
           /\ ~Transferred(xfer.type))
         => LET n == Len(xfer.data)
                m == xfer.max
                l == n - m * (Ceil(n, m) - 1)
                last == LastPacketLength(wire, xfer.type)
            IN /\ last = IF l % 20 = 0 THEN 20 ELSE l % 20
               /\ (n % 20 # 0 /\ (m % 20 = 0 \/ m >= n)) => last = n % 20]_vars

\* a payload of 45 bytes was transferred in chunks of 25 and 20 bytes
C30_Witness ==
    /\ Transferred(ImageType) /\ Len(PayloadOf(ImageType)) % 20 = 5
    /\ Len(Creates(wire, ImageType)) = 2
    /\ CreateLength(Creates(wire, ImageType)[2]) = 20
    /\ LastPacketLength(wire, ImageType) = 20

\* the index of the last CREATE request before entry k of wire, 0 if none
LastCreateBefore(w, k) ==
    LET c == {j \in 1..(k - 1) :
                 w[j].ch = "control" /\ w[j].data[1] = DFU_OP_OBJECT_CREATE}
    IN IF c = {} THEN 0 ELSE CHOOSE j \in c : \A i \in c : i <= j

\* C31: a Packet write carries 1 to 20 bytes, and exactly 20 when another
\* Packet write follows it; when CRC_GET is written for an object created
\* with length l, there were ceil(l / 20) Packet writes since its CREATE and
\* they carried l bytes
C31_FragmentsOfTwentyBytes ==
    /\ \A k \in 1..Len(wire) :
          wire[k].ch = "packet"
             => /\ Len(wire[k].data) \in 1..20
                /\ (k < Len(wire) /\ wire[k + 1].ch = "packet")
                      => Len(wire[k].data) = 20
    /\ \A k \in 1..Len(wire) :
          (wire[k].ch = "control" /\ wire[k].data[1] = DFU_OP_CRC_GET)
             => LET c == LastCreateBefore(wire, k)
                    l == CreateLength(wire[c])
                IN /\ c > 0
                   /\ \A j \in (c + 1)..(k - 1) : wire[j].ch = "packet"
                   /\ k - 1 - c = Ceil(l, 20)
                   /\ Len(PacketData(SubSeq(wire, c + 1, k - 1))) = l

\* an object of 25 bytes was written as 20 and 5 bytes
C31_Witness ==
    \E k \in 4..Len(wire) :
        /\ wire[k].ch = "control" /\ wire[k].data[1] = DFU_OP_CRC_GET
        /\ wire[k - 1].ch = "packet" /\ Len(wire[k - 1].data) = 5
        /\ wire[k - 2].ch = "packet" /\ Len(wire[k - 2].data) = 20
        /\ wire[k - 3].ch = "control" /\ CreateLength(wire[k - 3]) = 25

\* the bytes written to the packet characteristic for the payload of a type
SentFor(type) == PacketData(WrittenFor(wire, type, 0))

\* C32: verifyCrc finds the decoded CRC_GET response matching exactly when its
\* offset is the number k of payload bytes written so far and its checksum is
\* the CRC-32 of the first k bytes of the payload; it reports a size mismatch
\* exactly when the offset is not k
C32_ExpectsPrefixChecksum ==
    CrcGetDecoded(lastVerify)
       => LET k == Len(SentFor(lastVerify.type))
              prefix == SubSeq(PayloadOf(lastVerify.type), 1, k)
          IN /\ SentFor(lastVerify.type) = prefix
             /\ lastVerify.branch = "match"
                   <=> /\ lastVerify.response.Offset = k
                       /\ lastVerify.response.Crc32 = ChecksumIEEE(prefix)
             /\ lastVerify.branch = "size mismatch"
                   <=> lastVerify.response.Offset # k

\* a second chunk was found matching with the checksum of both chunks, which
\* is not the checksum of the second chunk alone
C32_Witness ==
    /\ CrcGetDecoded(lastVerify)
    /\ lastVerify.branch = "match"
    /\ xfer.i > 0
    /\ lastVerify.end = xfer.end
    /\ lastVerify.response.Crc32
          # ChecksumIEEE(SubSeq(lastVerify.data, xfer.i + 1, xfer.end))

\* the SELECT requests written for a type
Selects(w, type) ==
    SelectSeq(w, LAMBDA e : /\ e.ch = "control"
                            /\ e.data = << DFU_OP_OBJECT_SELECT, type >>)

\* the archive member selected for a type is empty
EmptyPayload(type) ==
    LET file == IF type = InitType THEN initDataFile ELSE firmwareFile
    IN file # NilFile /\ Len(file[1]) = 0

\* C33: for an empty payload at most one SELECT is written, exactly one once
\* its transfer has returned without error, and nothing is written between
\* that SELECT and the SELECT of the next payload: no CREATE, no Packet data,
\* no CRC_GET and no EXECUTE
C33_EmptyPayloadOnlySelects ==
    \A type \in {InitType, ImageType} :
        EmptyPayload(type)
           => /\ Len(Selects(wire, type)) <= 1
              /\ WrittenFor(wire, type, 0) = << >>
              /\ (\E d \in completed : d.type = type)
                    => Len(Selects(wire, type)) = 1

\* the transfer of an empty init payload returned after a SELECT response that
\* did not report it as uploaded, and the image transfer has begun
C33_Witness ==
    /\ EmptyPayload(InitType)
    /\ [type |-> InitType, skipped |-> FALSE] \in completed
    /\ Len(Selects(wire, ImageType)) = 1

\* C34: transfer terminates: every iteration of the chunk loop that ran to
\* its end moved i forward by at least one byte, so the loop body is entered
\* at most as often as the payload has bytes
C34_ChunkLoopAdvances ==
    /\ xfer.nobj > 0 => xfer.i >= xfer.nobj - 1
    /\ pc # "cutoff"

\* C35: the frame the engine takes from responseChannel while it waits for
\* the response to a request was sent by the device in reply to that request
C35_ResponseAnswersRequest ==
    (pc \in {"recvControl", "recvBoot"} /\ pending # << >>)
       => Head(origins) = Requests(wire)

\* C36: when the first connect of a call finds both control and packet, it
\* is the only connect of the call, the buttonless characteristic is neither
\* subscribed nor written, and EnterBootloader writes nothing at all and
\* returns nil with the peripheral disconnected
C36_BootloaderAlreadyActive ==
    (firstConnect # NoRet /\ firstConnect.both)
       => /\ ~firstConnect.again
          /\ pc # "reconnect"
          /\ BootRequests(wire) = << >>
          /\ subs \cap {"bootI", "bootN"} = {}
          /\ entered.kind = Nil /\ ebDefers = << >>
          /\ api = "EnterBootloader"
                => /\ wire = << >>
                   /\ "controlN" \notin subs
                   /\ result # "running"
                         => (result = "ok" /\ peripheral = Nil /\ ~linkUp)

\* EnterBootloader has returned nil from a device already in bootloader mode
C36_Witness ==
    /\ api = "EnterBootloader" /\ result = "ok"
    /\ firstConnect # NoRet /\ firstConnect.both

\* C37: the address and the name of the session are never both set, and a
\* connect that has just run used the address when it is set, the name
\* otherwise
C37_AddressOrName ==
    /\ (address = "" \/ name = << >>)
    /\ lastRet.fn = "connect"
          => IF address # ""
             THEN /\ lastRet.target.by = "address"
                  /\ lastRet.target.address = address
             ELSE /\ lastRet.target.by = "name"
                  /\ lastRet.target.name = name

\* Update with an address set has gone through the unbonded transition and
\* has just reconnected by the generated name
C37_Witness ==
    /\ lastRet.fn = "connect" /\ lastRet.phase = "reconnect"
    /\ lastRet.target.by = "name"
    /\ entered.kind = "unbonded"
    /\ IsGeneratedName(name) /\ address = ""

\* the deferred functions still to run, as a set
Deferring == {defers[k] : k \in 1..Len(defers)}

\* C39: until Update is about to open the archive nothing of an archive is
\* in the session; it is about to open it only with a connection made, after
\* a reconnect when the buttonless transition was entered, and with control
\* subscribed and the unsubscribe deferred on top of the disconnect; once
\* the open has failed no control request and no Packet data is written,
\* and Update returns an error with control unsubscribed and the peripheral
\* disconnected
C39_ArchiveOpenedLast ==
    /\ (result = "running"
        /\ pc \in {"connect", "enterBootloader", "subscribeBootN", "sendBoot",
                   "recvBoot", "gotBoot", "ebReturn", "reconnect", "subscribe",
                   "readArchive"})
          => /\ initDataFile = NilFile /\ firmwareFile = NilFile
             /\ maxProgressValue = 0 /\ progress = Nil
             /\ "close" \notin Deferring
    /\ pc = "readArchive"
          => /\ firstConnect # NoRet
             /\ (~firstConnect.both => firstConnect.again)
             /\ peripheral = "cur" /\ control = "cur"
             /\ "controlN" \in subs
             /\ defers = << "unsubscribe", "disconnect" >>
    /\ err = "failed to open firmware file" => (~archive.open /\ api = "Update")
    /\ (api = "Update" /\ ~archive.open /\ result # "none"
        /\ pc \notin {"connect", "enterBootloader", "subscribeBootN", "sendBoot",
                      "recvBoot", "gotBoot", "ebReturn", "reconnect",
                      "subscribe", "readArchive"}
        /\ progress = "cb")
          => /\ err = "failed to open firmware file"
             /\ \A k \in 1..Len(wire) : wire[k].ch = "boot"
             /\ reports = << >>
             /\ result # "panic"
             /\ defers \in {<< "unsubscribe", "disconnect" >>,
                            << "disconnect" >>, << >>}
             /\ "unsubscribe" \notin Deferring => "controlN" \notin subs
             /\ "disconnect" \notin Deferring => (peripheral = Nil /\ ~linkUp)
             /\ result # "running"
                   => (result = "error" /\ defers = << >>)

\* after the buttonless transition and the reconnect the archive could not
\* be opened, and Update has returned
C39_Witness ==
    /\ err = "failed to open firmware file" /\ result = "error"
    /\ entered.kind # Nil /\ firstConnect.again

\* the session and the transport are as InitAfterUpdate has them after an
\* Update
UpdatedOnce ==
    /\ pc = "idle" /\ api = "Update" /\ result = "ok"
    /\ address = UserAddress /\ name = << >>
    /\ peripheral = Nil /\ control = Nil /\ packet = Nil
    /\ boot = [h |-> Nil, kind |-> Nil]
    /\ addressChange = FALSE
    /\ initDataFile = Close(File(Payload(5, 3)))
    /\ firmwareFile = Close(File(Payload(MaxLen, 40)))
    /\ progress = "cb"
    /\ maxProgressValue = 5 + MaxLen /\ progressValue = 5 + MaxLen
    /\ linkUp = FALSE /\ subs = {} /\ air = << >>
    /\ pending = << >> /\ origins = << >>

\* C38: at every call of the progress callback 0 < current <= total, in the
\* first Update of a session and in the Update after one that succeeded
C38_ProgressWithinTotal ==
    \A k \in 1..Len(reports) :
        0 < reports[k].current /\ reports[k].current <= reports[k].total

\* the second Update of a session has transferred both payloads of its
\* archive: its last callback reports the bytes of both Updates
C38_Witness ==
    /\ api = "Update" /\ result = "ok" /\ reports # << >>
    /\ reports[1].current > 5 + MaxLen
    /\ reports[Len(reports)].current = reports[Len(reports)].total

====
